---- MODULE Spec2Model ----
(***************************************************************************)
(* ventilo: topic based fan-out relay.  A POST on /broadcast/<name> is     *)
(* handed to every WebSocket or SSE listener registered on /listen/<name>. *)
(*                                                                         *)
(* The model follows the Go source: Server{mutex, listeners, messages},    *)
(* ServeHTTP's routing, handleWebSocket, handleSSE, listen, hangup (with   *)
(* its drain goroutine), broadcast and readLoop.  Every goroutine is a     *)
(* process with a program counter; an unbuffered Go channel is a           *)
(* rendezvous: a non-blocking send succeeds only when the receiver is      *)
(* parked in its select.                                                   *)
(***************************************************************************)
EXTENDS Integers, Sequences, FiniteSets, TLC

\* ----------------------------------------------------------------- bounds
\* number of HTTP requests the server receives, of any kind
MaxRequests == 3
\* number of /listen/ requests among them (each one connection, one queue)
MaxConns == 2
\* number of /broadcast/ requests among them (request p carries the message p)
MaxPubs == 2

\* the requests of a kind are numbered as they arrive
Conns == 1..MaxConns
Pubs == 1..MaxPubs

\* ------------------------------------------------------- paths and routing
\* A path is a sequence of characters.
channels == <<"/", "c", "h", "a", "n", "n", "e", "l", "s", "/">>
broadcast == <<"/", "b", "r", "o", "a", "d", "c", "a", "s", "t", "/">>
listen == <<"/", "l", "i", "s", "t", "e", "n", "/">>

\* the channel names requests use; the first is a prefix of the second
NameA == <<"a">>
NameAB == <<"a", "b">>
Names == {NameA, NameAB}

\* strings.HasPrefix
HasPrefix(s, prefix) ==
    /\ Len(s) >= Len(prefix)
    /\ SubSeq(s, 1, Len(prefix)) = prefix

\* strings.TrimPrefix
TrimPrefix(s, prefix) ==
    IF HasPrefix(s, prefix) THEN SubSeq(s, Len(prefix) + 1, Len(s)) ELSE s

\* a bug: the /channels/ case is taken by every path that begins with it
RoutePrefix(path) ==
    IF HasPrefix(path, channels) THEN "channels"
    ELSE IF HasPrefix(path, broadcast) THEN "broadcast"
    ELSE IF HasPrefix(path, listen) THEN "listen"
    ELSE "notfound"

\* the switch of ServeHTTP: which case a path selects
Route(path) ==
    IF path = channels THEN "channels"
    ELSE IF HasPrefix(path, broadcast) THEN "broadcast"
    ELSE IF HasPrefix(path, listen) THEN "listen"
    ELSE "notfound"

ListenPaths == {listen \o n : n \in Names}
BroadcastPaths == {broadcast \o n : n \in Names}

\* paths that are no route: the root, a route without its last slash, and
\* /channels/ with something after it
OtherPaths ==
    { <<"/">>,
      SubSeq(channels, 1, Len(channels) - 1),
      SubSeq(broadcast, 1, Len(broadcast) - 1),
      SubSeq(listen, 1, Len(listen) - 1),
      channels \o NameA }

\* the paths of the requests the server receives
Paths == ListenPaths \cup BroadcastPaths \cup {channels} \cup OtherPaths

\* ------------------------------------------------------------------ state
VARIABLES
    mutex,      \* Server.mutex: its holder, or Free
    listeners,  \* Server.listeners: name -> sequence of queues (a Go map)
    messages,   \* Server.messages: name -> count (a Go map)
    kind,       \* per connection: "none", "ws" or "sse"
    cname,      \* per connection: the channel name of its /listen/ request
    cpc,        \* per connection: position of the handler goroutine
    cmsg,       \* per connection: the message the relay loop holds (0: none)
    peer,       \* per connection: "open", or "gone" once the client went away
    rl,         \* per connection: position of the readLoop goroutine
    drain,      \* per connection: position of hangup's drain goroutine
    pulled,     \* per connection: messages received from the queue (PULL log)
    out,        \* per connection: messages written to the transport
    drained,    \* per connection: messages the drain goroutine discarded
    ppc,        \* per broadcast request: position
    pname,      \* per broadcast request: channel name
    plist,      \* per broadcast request: the copied list (snapshot)
    pidx,       \* per broadcast request: index of the range loop
    plog,       \* per broadcast request: PUSH / ERROR log of the loop
    pseq,       \* per broadcast request: messages[name] after its increment
    ppred,      \* per broadcast request: requests answered before its unlock
    spc,        \* GET /channels/: position
    scount,     \* GET /channels/: requests received so far
    skeys,      \* GET /channels/: keys of listeners when the range began
    slist,      \* GET /channels/: list built so far
    sresp,      \* GET /channels/: the last response body
    sbefore,    \* GET /channels/: names broadcast on before the request
    schanged,   \* GET /channels/: the registry was written while the range ran
    nfcount     \* requests answered 404 Not Found so far

connVars == <<kind, cname, cpc, cmsg, peer, rl, drain, pulled, out, drained>>
pubVars == <<ppc, pname, plist, pidx, plog, pseq, ppred>>
statusVars == <<spc, scount, skeys, slist, sresp, sbefore, schanged, nfcount>>
vars == <<mutex, listeners, messages, connVars, pubVars, statusVars>>

\* the process runs until the Go runtime ends it with a fatal error
Running == spc # "fatal"

Free == <<"free", 0>>
Handler(c) == <<"conn", c>>
Publisher(p) == <<"pub", p>>

\* reading a Go map: the zero value when the key is absent
Subscribers(name) == IF name \in DOMAIN listeners THEN listeners[name] ELSE <<>>
Count(name) == IF name \in DOMAIN messages THEN messages[name] ELSE 0

\* writing a Go map: the key is created when absent
MapSet(map, key, value) ==
    [k \in DOMAIN map \cup {key} |-> IF k = key THEN value ELSE map[k]]

\* the requests received so far
Received ==
    Cardinality({c \in Conns : cpc[c] # "idle"})
        + Cardinality({p \in Pubs : ppc[p] # "idle"}) + scount + nfcount

\* request number c of its kind arrives next
NextConn(c) ==
    /\ Received < MaxRequests
    /\ cpc[c] = "idle"
    /\ \A d \in Conns : d < c => cpc[d] # "idle"

NextPub(p) ==
    /\ Received < MaxRequests
    /\ ppc[p] = "idle"
    /\ \A d \in Pubs : d < p => ppc[d] # "idle"

\* newServer
Init ==
    /\ mutex = Free
    /\ listeners = <<>>
    /\ messages = <<>>
    /\ kind = [c \in Conns |-> "none"]
    /\ cname = [c \in Conns |-> <<>>]
    /\ cpc = [c \in Conns |-> "idle"]
    /\ cmsg = [c \in Conns |-> 0]
    /\ peer = [c \in Conns |-> "open"]
    /\ rl = [c \in Conns |-> "none"]
    /\ drain = [c \in Conns |-> "none"]
    /\ pulled = [c \in Conns |-> <<>>]
    /\ out = [c \in Conns |-> <<>>]
    /\ drained = [c \in Conns |-> {}]
    /\ ppc = [p \in Pubs |-> "idle"]
    /\ pname = [p \in Pubs |-> <<>>]
    /\ plist = [p \in Pubs |-> <<>>]
    /\ pidx = [p \in Pubs |-> 1]
    /\ plog = [p \in Pubs |-> <<>>]
    /\ pseq = [p \in Pubs |-> 0]
    /\ ppred = [p \in Pubs |-> {}]
    /\ spc = "idle"
    /\ scount = 0
    /\ skeys = {}
    /\ slist = <<>>
    /\ sresp = <<>>
    /\ sbefore = {}
    /\ schanged = FALSE
    /\ nfcount = 0

\* a write of the registry is seen by a GET /channels/ whose range is running
RegistryWritten ==
    /\ schanged' = (schanged \/ spc = "range")
    /\ UNCHANGED <<spc, scount, skeys, slist, sresp, sbefore, nfcount>>

\* ------------------------------------------------------------------ listen
\* listen: server.mutex.Lock()
ListenLock(c) ==
    /\ Running
    /\ cpc[c] = "listen"
    /\ mutex = Free
    /\ mutex' = Handler(c)
    /\ cpc' = [cpc EXCEPT ![c] = "append"]
    /\ UNCHANGED <<listeners, messages, kind, cname, cmsg, peer, rl, drain,
                   pulled, out, drained, pubVars, statusVars>>

\* a bug: the new queue is appended twice
ListenAppendTwice(c) ==
    /\ Running
    /\ cpc[c] = "append"
    /\ mutex = Handler(c)
    /\ listeners' = MapSet(listeners, cname[c],
                           Append(Append(Subscribers(cname[c]), c), c))
    /\ mutex' = Free
    /\ cpc' = [cpc EXCEPT ![c] = "registered"]
    /\ RegistryWritten
    /\ UNCHANGED <<messages, kind, cname, cmsg, peer, rl, drain,
                   pulled, out, drained, pubVars>>

\* a bug: the list of the name is replaced by the new queue alone
ListenAssign(c) ==
    /\ Running
    /\ cpc[c] = "append"
    /\ mutex = Handler(c)
    /\ listeners' = MapSet(listeners, cname[c], <<c>>)
    /\ mutex' = Free
    /\ cpc' = [cpc EXCEPT ![c] = "registered"]
    /\ RegistryWritten
    /\ UNCHANGED <<messages, kind, cname, cmsg, peer, rl, drain,
                   pulled, out, drained, pubVars>>

\* listen: the new queue (named after its connection) is appended to the
\* list of the name, then server.mutex.Unlock() and return
ListenAppend(c) ==
    /\ Running
    /\ cpc[c] = "append"
    /\ mutex = Handler(c)
    /\ listeners' = MapSet(listeners, cname[c], Append(Subscribers(cname[c]), c))
    /\ mutex' = Free
    /\ cpc' = [cpc EXCEPT ![c] = "registered"]
    /\ RegistryWritten
    /\ UNCHANGED <<messages, kind, cname, cmsg, peer, rl, drain,
                   pulled, out, drained, pubVars>>

\* ------------------------------------------------------------------ hangup
\* a bug: the head of the list is removed, whatever it is
RemoveHead(list, q) ==
    IF list = <<>> THEN <<>> ELSE Tail(list)

\* the loop of hangup: the list without its first entry identical to q
RECURSIVE RemoveFirst(_, _)
RemoveFirst(list, q) ==
    IF list = <<>> THEN <<>>
    ELSE IF Head(list) = q THEN Tail(list)
    ELSE <<Head(list)>> \o RemoveFirst(Tail(list), q)

\* the deferred hangup begins: server.mutex.Lock()
HangupLock(c) ==
    /\ Running
    /\ cpc[c] = "return"
    /\ mutex = Free
    /\ mutex' = Handler(c)
    /\ cpc' = [cpc EXCEPT ![c] = "remove"]
    /\ UNCHANGED <<listeners, messages, kind, cname, cmsg, peer, rl, drain,
                   pulled, out, drained, pubVars, statusVars>>

\* a bug: the list of a broadcast is the list of the channel map itself (no
\* copy), so that the removal reaches it
HangupRemoveAliased(c) ==
    /\ Running
    /\ cpc[c] = "remove"
    /\ mutex = Handler(c)
    /\ listeners' = MapSet(listeners, cname[c], RemoveFirst(Subscribers(cname[c]), c))
    /\ plist' = [p \in Pubs |->
                    IF pname[p] = cname[c] THEN RemoveFirst(plist[p], c) ELSE plist[p]]
    /\ mutex' = Free
    /\ drain' = [drain EXCEPT ![c] = "draining"]
    /\ cpc' = [cpc EXCEPT ![c] = "done"]
    /\ RegistryWritten
    /\ UNCHANGED <<messages, kind, cname, cmsg, peer, rl,
                   pulled, out, drained, ppc, pname, pidx, plog, pseq, ppred>>

\* a bug: the entry of the name is deleted with its last queue
HangupRemoveDeletes(c) ==
    /\ Running
    /\ cpc[c] = "remove"
    /\ mutex = Handler(c)
    /\ listeners' =
          IF RemoveFirst(Subscribers(cname[c]), c) = <<>>
          THEN [k \in DOMAIN listeners \ {cname[c]} |-> listeners[k]]
          ELSE MapSet(listeners, cname[c], RemoveFirst(Subscribers(cname[c]), c))
    /\ mutex' = Free
    /\ drain' = [drain EXCEPT ![c] = "draining"]
    /\ cpc' = [cpc EXCEPT ![c] = "done"]
    /\ RegistryWritten
    /\ UNCHANGED <<messages, kind, cname, cmsg, peer, rl,
                   pulled, out, drained, pubVars>>

\* hangup: the queue is removed, the list stored back, the mutex released
\* and the drain goroutine started; the handler has returned
HangupRemove(c) ==
    /\ Running
    /\ cpc[c] = "remove"
    /\ mutex = Handler(c)
    /\ listeners' = MapSet(listeners, cname[c], RemoveFirst(Subscribers(cname[c]), c))
    /\ mutex' = Free
    /\ drain' = [drain EXCEPT ![c] = "draining"]
    /\ cpc' = [cpc EXCEPT ![c] = "done"]
    /\ RegistryWritten
    /\ UNCHANGED <<messages, kind, cname, cmsg, peer, rl,
                   pulled, out, drained, pubVars>>

\* the drain goroutine: case <-timeout: return
DrainExpire(c) ==
    /\ Running
    /\ drain[c] = "draining"
    /\ drain' = [drain EXCEPT ![c] = "expired"]
    /\ UNCHANGED <<mutex, listeners, messages, kind, cname, cpc, cmsg, peer, rl,
                   pulled, out, drained, pubVars, statusVars>>

\* ------------------------------------------------------------- the client
\* the client of a connection goes away (closes, or its network breaks)
PeerGone(c) ==
    /\ Running
    /\ cpc[c] \notin {"idle", "done"}
    /\ peer[c] = "open"
    /\ peer' = [peer EXCEPT ![c] = "gone"]
    /\ UNCHANGED <<mutex, listeners, messages, kind, cname, cpc, cmsg, rl, drain,
                   pulled, out, drained, pubVars, statusVars>>

\* --------------------------------------------------------- handleWebSocket
\* a bug: listen is called before the upgrade, and a failed upgrade returns
\* with the queue left in the list
WSConnectListensFirst(c) ==
    /\ Running
    /\ NextConn(c)
    /\ \E path \in Paths, upgraded \in BOOLEAN :
          /\ Route(path) = "listen"
          /\ cname' = [cname EXCEPT ![c] = IF upgraded THEN TrimPrefix(path, listen) ELSE @]
          /\ cpc' = [cpc EXCEPT ![c] = IF upgraded THEN "listen" ELSE "done"]
          /\ listeners' =
                IF upgraded THEN listeners
                ELSE MapSet(listeners, TrimPrefix(path, listen),
                            Append(Subscribers(TrimPrefix(path, listen)), c))
    /\ kind' = [kind EXCEPT ![c] = "ws"]
    /\ UNCHANGED <<mutex, messages, cmsg, peer, rl, drain,
                   pulled, out, drained, pubVars, statusVars>>

\* ServeHTTP takes the /listen/ case without Accept: text/event-stream and
\* calls handleWebSocket; a failed Upgrade returns at once
WSConnect(c) ==
    /\ Running
    /\ NextConn(c)
    /\ \E path \in Paths, upgraded \in BOOLEAN :
          /\ Route(path) = "listen"
          /\ cname' = [cname EXCEPT ![c] = IF upgraded THEN TrimPrefix(path, listen) ELSE @]
          /\ cpc' = [cpc EXCEPT ![c] = IF upgraded THEN "listen" ELSE "done"]
    /\ kind' = [kind EXCEPT ![c] = "ws"]
    /\ UNCHANGED <<mutex, listeners, messages, cmsg, peer, rl, drain,
                   pulled, out, drained, pubVars, statusVars>>

\* dead := make(chan bool); defer hangup; go readLoop; the loop's select
WSSpawn(c) ==
    /\ Running
    /\ kind[c] = "ws"
    /\ cpc[c] = "registered"
    /\ rl' = [rl EXCEPT ![c] = "reading"]
    /\ cpc' = [cpc EXCEPT ![c] = "parked"]
    /\ UNCHANGED <<mutex, listeners, messages, kind, cname, cmsg, peer, drain,
                   pulled, out, drained, pubVars, statusVars>>

\* a bug: the error of WriteMessage is not looked at
WSWriteIgnoresError(c) ==
    /\ Running
    /\ kind[c] = "ws"
    /\ cpc[c] = "write"
    /\ \E ok \in BOOLEAN :
          /\ ok => rl[c] \notin {"sending", "done"}
          /\ ~ok => peer[c] = "gone"
          /\ out' = [out EXCEPT ![c] = IF ok THEN Append(@, cmsg[c]) ELSE @]
          /\ cpc' = [cpc EXCEPT ![c] = "parked"]
    /\ cmsg' = [cmsg EXCEPT ![c] = 0]
    /\ UNCHANGED <<mutex, listeners, messages, kind, cname, peer, rl, drain,
                   pulled, drained, pubVars, statusVars>>

\* a bug: the return on a write error does not run hangup (no defer)
WSWriteNoHangup(c) ==
    /\ Running
    /\ kind[c] = "ws"
    /\ cpc[c] = "write"
    /\ \E ok \in BOOLEAN :
          /\ ok => rl[c] \notin {"sending", "done"}
          /\ ~ok => peer[c] = "gone"
          /\ out' = [out EXCEPT ![c] = IF ok THEN Append(@, cmsg[c]) ELSE @]
          /\ cpc' = [cpc EXCEPT ![c] = IF ok THEN "parked" ELSE "done"]
    /\ cmsg' = [cmsg EXCEPT ![c] = 0]
    /\ UNCHANGED <<mutex, listeners, messages, kind, cname, peer, rl, drain,
                   pulled, drained, pubVars, statusVars>>

\* websocket_.WriteMessage: it succeeds while the client is there, may fail
\* once the client is gone and fails once readLoop has closed the socket
WSWrite(c) ==
    /\ Running
    /\ kind[c] = "ws"
    /\ cpc[c] = "write"
    /\ \E ok \in BOOLEAN :
          /\ ok => rl[c] \notin {"sending", "done"}
          /\ ~ok => peer[c] = "gone"
          /\ out' = [out EXCEPT ![c] = IF ok THEN Append(@, cmsg[c]) ELSE @]
          /\ cpc' = [cpc EXCEPT ![c] = IF ok THEN "parked" ELSE "return"]
    /\ cmsg' = [cmsg EXCEPT ![c] = 0]
    /\ UNCHANGED <<mutex, listeners, messages, kind, cname, peer, rl, drain,
                   pulled, drained, pubVars, statusVars>>

\* case message := <-dead: readLoop's send meets the select, which returns
WSDead(c) ==
    /\ Running
    /\ kind[c] = "ws"
    /\ cpc[c] = "parked"
    /\ rl[c] = "sending"
    /\ rl' = [rl EXCEPT ![c] = "done"]
    /\ cpc' = [cpc EXCEPT ![c] = "return"]
    /\ UNCHANGED <<mutex, listeners, messages, kind, cname, cmsg, peer, drain,
                   pulled, out, drained, pubVars, statusVars>>

\* a bug: readLoop ends on a failed read without signalling the relay loop
ReadLoopErrorSilent(c) ==
    /\ Running
    /\ rl[c] = "reading"
    /\ peer[c] = "gone"
    /\ rl' = [rl EXCEPT ![c] = "done"]
    /\ UNCHANGED <<mutex, listeners, messages, kind, cname, cpc, cmsg, peer, drain,
                   pulled, out, drained, pubVars, statusVars>>

\* readLoop: NextReader fails once the client is gone; the socket is closed
\* and the goroutine stands at dead <- true
ReadLoopError(c) ==
    /\ Running
    /\ rl[c] = "reading"
    /\ peer[c] = "gone"
    /\ rl' = [rl EXCEPT ![c] = "sending"]
    /\ UNCHANGED <<mutex, listeners, messages, kind, cname, cpc, cmsg, peer, drain,
                   pulled, out, drained, pubVars, statusVars>>

\* --------------------------------------------------------------- handleSSE
\* ServeHTTP takes the /listen/ case with Accept: text/event-stream and calls
\* handleSSE; a writer that is no http.Flusher returns at once
SSEConnect(c) ==
    /\ Running
    /\ NextConn(c)
    /\ \E path \in Paths, flusher \in BOOLEAN :
          /\ Route(path) = "listen"
          /\ cname' = [cname EXCEPT ![c] = IF flusher THEN TrimPrefix(path, listen) ELSE @]
          /\ cpc' = [cpc EXCEPT ![c] = IF flusher THEN "listen" ELSE "done"]
    /\ kind' = [kind EXCEPT ![c] = "sse"]
    /\ UNCHANGED <<mutex, listeners, messages, cmsg, peer, rl, drain,
                   pulled, out, drained, pubVars, statusVars>>

\* defer hangup; "event: connected"; the ticker; the loop's select
SSEConnected(c) ==
    /\ Running
    /\ kind[c] = "sse"
    /\ cpc[c] = "registered"
    /\ cpc' = [cpc EXCEPT ![c] = "parked"]
    /\ UNCHANGED <<mutex, listeners, messages, kind, cname, cmsg, peer, rl, drain,
                   pulled, out, drained, pubVars, statusVars>>

\* case <-disconnected: the request context is done once the client is gone
SSEDisconnected(c) ==
    /\ Running
    /\ kind[c] = "sse"
    /\ cpc[c] = "parked"
    /\ peer[c] = "gone"
    /\ cpc' = [cpc EXCEPT ![c] = "return"]
    /\ UNCHANGED <<mutex, listeners, messages, kind, cname, cmsg, peer, rl, drain,
                   pulled, out, drained, pubVars, statusVars>>

\* case <-ticker.C: the select takes a tick
SSETick(c) ==
    /\ Running
    /\ kind[c] = "sse"
    /\ cpc[c] = "parked"
    /\ cpc' = [cpc EXCEPT ![c] = "ping"]
    /\ UNCHANGED <<mutex, listeners, messages, kind, cname, cmsg, peer, rl, drain,
                   pulled, out, drained, pubVars, statusVars>>

\* "event: ping" is written and flushed, back to the select
SSEPing(c) ==
    /\ Running
    /\ kind[c] = "sse"
    /\ cpc[c] = "ping"
    /\ cpc' = [cpc EXCEPT ![c] = "parked"]
    /\ UNCHANGED <<mutex, listeners, messages, kind, cname, cmsg, peer, rl, drain,
                   pulled, out, drained, pubVars, statusVars>>

\* "data: <message>" is written and flushed; a failed write is not looked at
SSEWrite(c) ==
    /\ Running
    /\ kind[c] = "sse"
    /\ cpc[c] = "write"
    /\ \E ok \in BOOLEAN :
          /\ ~ok => peer[c] = "gone"
          /\ out' = [out EXCEPT ![c] = IF ok THEN Append(@, cmsg[c]) ELSE @]
    /\ cpc' = [cpc EXCEPT ![c] = "parked"]
    /\ cmsg' = [cmsg EXCEPT ![c] = 0]
    /\ UNCHANGED <<mutex, listeners, messages, kind, cname, peer, rl, drain,
                   pulled, drained, pubVars, statusVars>>

\* --------------------------------------------------------------- broadcast
\* ServeHTTP takes the /broadcast/ case and calls broadcast(name, message);
\* the message of request p is p
BroadcastStart(p) ==
    /\ Running
    /\ NextPub(p)
    /\ \E path \in Paths :
          /\ Route(path) = "broadcast"
          /\ pname' = [pname EXCEPT ![p] = TrimPrefix(path, broadcast)]
    /\ ppc' = [ppc EXCEPT ![p] = "lock"]
    /\ UNCHANGED <<mutex, listeners, messages, connVars, plist, pidx, plog, pseq,
                   ppred, statusVars>>

\* a bug: the queues of a name that begins with the name of the broadcast
\* are copied too
BroadcastLockPrefix(p) ==
    /\ Running
    /\ ppc[p] = "lock"
    /\ mutex = Free
    /\ mutex' = Publisher(p)
    /\ LET longer == {n \in DOMAIN listeners : n # pname[p] /\ HasPrefix(n, pname[p])}
       IN plist' = [plist EXCEPT ![p] =
                       IF longer = {} THEN Subscribers(pname[p])
                       ELSE Subscribers(pname[p]) \o listeners[CHOOSE n \in longer : TRUE]]
    /\ ppc' = [ppc EXCEPT ![p] = "incr"]
    /\ UNCHANGED <<listeners, messages, connVars, pname, pidx, plog, pseq, ppred,
                   statusVars>>

\* a bug: the list is copied without the mutex being taken
BroadcastLockLate(p) ==
    /\ Running
    /\ ppc[p] = "lock"
    /\ mutex' = mutex
    /\ plist' = [plist EXCEPT ![p] = Subscribers(pname[p])]
    /\ ppc' = [ppc EXCEPT ![p] = "incr"]
    /\ UNCHANGED <<listeners, messages, connVars, pname, pidx, plog, pseq, ppred,
                   statusVars>>

\* a bug: the copied list holds every queue ever registered on the name,
\* those that hangup has removed too
BroadcastLockStale(p) ==
    /\ Running
    /\ ppc[p] = "lock"
    /\ mutex = Free
    /\ mutex' = Publisher(p)
    /\ LET ever == {c \in Conns : /\ cname[c] = pname[p]
                                  /\ cpc[c] \notin {"idle", "listen", "append"}}
       IN plist' = [plist EXCEPT ![p] =
                       [i \in 1..Cardinality(ever) |->
                           CHOOSE c \in ever : Cardinality({d \in ever : d < c}) = i - 1]]
    /\ ppc' = [ppc EXCEPT ![p] = "incr"]
    /\ UNCHANGED <<listeners, messages, connVars, pname, pidx, plog, pseq, ppred,
                   statusVars>>

\* server.mutex.Lock(); list := append([]chan string{}, listeners[name]...)
BroadcastLock(p) ==
    /\ Running
    /\ ppc[p] = "lock"
    /\ mutex = Free
    /\ mutex' = Publisher(p)
    /\ plist' = [plist EXCEPT ![p] = Subscribers(pname[p])]
    /\ ppc' = [ppc EXCEPT ![p] = "incr"]
    /\ UNCHANGED <<listeners, messages, connVars, pname, pidx, plog, pseq, ppred,
                   statusVars>>

\* a bug: the mutex is not released before the loop
BroadcastIncrHoldsLock(p) ==
    /\ Running
    /\ ppc[p] = "incr"
    /\ mutex = Publisher(p)
    /\ messages' = MapSet(messages, pname[p], Count(pname[p]) + 1)
    /\ pseq' = [pseq EXCEPT ![p] = Count(pname[p]) + 1]
    /\ ppred' = [ppred EXCEPT ![p] = {q \in Pubs : ppc[q] = "done"}]
    /\ mutex' = mutex
    /\ ppc' = [ppc EXCEPT ![p] = "deliver"]
    /\ RegistryWritten
    /\ UNCHANGED <<listeners, connVars, pname, plist, pidx, plog>>

\* a bug: a broadcast to nobody is not counted
BroadcastIncrIfHeard(p) ==
    /\ Running
    /\ ppc[p] = "incr"
    /\ mutex = Publisher(p)
    /\ messages' = IF plist[p] = <<>> THEN messages
                   ELSE MapSet(messages, pname[p], Count(pname[p]) + 1)
    /\ pseq' = [pseq EXCEPT ![p] = Count(pname[p]) + 1]
    /\ ppred' = [ppred EXCEPT ![p] = {q \in Pubs : ppc[q] = "done"}]
    /\ mutex' = Free
    /\ ppc' = [ppc EXCEPT ![p] = "deliver"]
    /\ RegistryWritten
    /\ UNCHANGED <<listeners, connVars, pname, plist, pidx, plog>>

\* server.messages[name]++; server.mutex.Unlock()
BroadcastIncr(p) ==
    /\ Running
    /\ ppc[p] = "incr"
    /\ mutex = Publisher(p)
    /\ messages' = MapSet(messages, pname[p], Count(pname[p]) + 1)
    /\ pseq' = [pseq EXCEPT ![p] = Count(pname[p]) + 1]
    /\ ppred' = [ppred EXCEPT ![p] = {q \in Pubs : ppc[q] = "done"}]
    /\ mutex' = Free
    /\ ppc' = [ppc EXCEPT ![p] = "deliver"]
    /\ RegistryWritten
    /\ UNCHANGED <<listeners, connVars, pname, plist, pidx, plog>>

\* a bug: the drain goroutine goes on receiving after its timeout
ReceiverAfterExpiry(q) ==
    IF cpc[q] = "parked" THEN "relay"
    ELSE IF drain[q] \in {"draining", "expired"} THEN "drain"
    ELSE "nobody"

\* who stands in a receive on queue q: the relay loop of its handler, the
\* drain goroutine of its hangup, or nobody
Receiver(q) ==
    IF cpc[q] = "parked" THEN "relay"
    ELSE IF drain[q] = "draining" THEN "drain"
    ELSE "nobody"

\* a bug: the drain goroutine writes what it receives to the transport
HandoffDrainForwards(p, q) ==
    LET r == Receiver(q)
    IN /\ cpc' = [cpc EXCEPT ![q] = IF r = "relay" THEN "write" ELSE @]
       /\ cmsg' = [cmsg EXCEPT ![q] = IF r = "relay" THEN p ELSE @]
       /\ pulled' = [pulled EXCEPT ![q] = IF r = "relay" THEN Append(@, p) ELSE @]
       /\ drained' = [drained EXCEPT ![q] = IF r = "drain" THEN @ \cup {p} ELSE @]
       /\ out' = [out EXCEPT ![q] = IF r = "drain" THEN Append(@, p) ELSE @]
       /\ plog' = [plog EXCEPT ![p] =
                      Append(@, IF r = "nobody" THEN "ERROR" ELSE "PUSH")]

\* a bug: a message sent while the relay loop is busy is kept for it (a
\* queue with a buffer) although the send is logged as dropped
HandoffQueued(p, q) ==
    LET r == Receiver(q)
        kept == r = "nobody" /\ cpc[q] \in {"registered", "ping"}
    IN /\ cpc' = [cpc EXCEPT ![q] = IF r = "relay" \/ kept THEN "write" ELSE @]
       /\ cmsg' = [cmsg EXCEPT ![q] = IF r = "relay" \/ kept THEN p ELSE @]
       /\ pulled' = [pulled EXCEPT ![q] =
                        IF r = "relay" \/ kept THEN Append(@, p) ELSE @]
       /\ drained' = [drained EXCEPT ![q] = IF r = "drain" THEN @ \cup {p} ELSE @]
       /\ plog' = [plog EXCEPT ![p] =
                      Append(@, IF r = "nobody" THEN "ERROR" ELSE "PUSH")]
       /\ UNCHANGED out

\* a bug: the relay loop is given the newest message before the older ones
HandoffStack(p, q) ==
    LET r == Receiver(q)
    IN /\ cpc' = [cpc EXCEPT ![q] = IF r = "relay" THEN "write" ELSE @]
       /\ cmsg' = [cmsg EXCEPT ![q] = IF r = "relay" THEN p ELSE @]
       /\ pulled' = [pulled EXCEPT ![q] = IF r = "relay" THEN <<p>> \o @ ELSE @]
       /\ drained' = [drained EXCEPT ![q] = IF r = "drain" THEN @ \cup {p} ELSE @]
       /\ plog' = [plog EXCEPT ![p] =
                      Append(@, IF r = "nobody" THEN "ERROR" ELSE "PUSH")]
       /\ UNCHANGED out

\* select { case channel <- message: default: } on queue q: the message is
\* taken by whoever stands in a receive (PUSH), else it is dropped (ERROR)
Handoff(p, q) ==
    LET r == Receiver(q)
    IN /\ cpc' = [cpc EXCEPT ![q] = IF r = "relay" THEN "write" ELSE @]
       /\ cmsg' = [cmsg EXCEPT ![q] = IF r = "relay" THEN p ELSE @]
       /\ pulled' = [pulled EXCEPT ![q] = IF r = "relay" THEN Append(@, p) ELSE @]
       /\ drained' = [drained EXCEPT ![q] = IF r = "drain" THEN @ \cup {p} ELSE @]
       /\ plog' = [plog EXCEPT ![p] =
                      Append(@, IF r = "nobody" THEN "ERROR" ELSE "PUSH")]
       /\ UNCHANGED out

\* a bug: the loop ends at the first queue that nobody receives on
BroadcastDeliverStopsOnError(p) ==
    /\ Running
    /\ ppc[p] = "deliver"
    /\ pidx[p] <= Len(plist[p])
    /\ Handoff(p, plist[p][pidx[p]])
    /\ pidx' = [pidx EXCEPT ![p] =
                    IF Receiver(plist[p][pidx[p]]) = "nobody"
                    THEN Len(plist[p]) + 1 ELSE @ + 1]
    /\ UNCHANGED <<mutex, listeners, messages, kind, cname, peer, rl, drain,
                   ppc, pname, plist, pseq, ppred, statusVars>>

\* a bug: every turn of the loop sends to the first queue of the list
BroadcastDeliverFirst(p) ==
    /\ Running
    /\ ppc[p] = "deliver"
    /\ pidx[p] <= Len(plist[p])
    /\ Handoff(p, plist[p][1])
    /\ pidx' = [pidx EXCEPT ![p] = @ + 1]
    /\ UNCHANGED <<mutex, listeners, messages, kind, cname, peer, rl, drain,
                   ppc, pname, plist, pseq, ppred, statusVars>>

\* a bug: the send waits for a receiver (channel <- message with no select)
BroadcastDeliverBlocking(p) ==
    /\ Running
    /\ ppc[p] = "deliver"
    /\ pidx[p] <= Len(plist[p])
    /\ Receiver(plist[p][pidx[p]]) # "nobody"
    /\ Handoff(p, plist[p][pidx[p]])
    /\ pidx' = [pidx EXCEPT ![p] = @ + 1]
    /\ UNCHANGED <<mutex, listeners, messages, kind, cname, peer, rl, drain,
                   ppc, pname, plist, pseq, ppred, statusVars>>

\* one turn of the range loop over the copied list
BroadcastDeliver(p) ==
    /\ Running
    /\ ppc[p] = "deliver"
    /\ pidx[p] <= Len(plist[p])
    /\ Handoff(p, plist[p][pidx[p]])
    /\ pidx' = [pidx EXCEPT ![p] = @ + 1]
    /\ UNCHANGED <<mutex, listeners, messages, kind, cname, peer, rl, drain,
                   ppc, pname, plist, pseq, ppred, statusVars>>

\* the loop is over, broadcast returns and ServeHTTP answers "OK\n"
BroadcastRespond(p) ==
    /\ Running
    /\ ppc[p] = "deliver"
    /\ pidx[p] > Len(plist[p])
    /\ ppc' = [ppc EXCEPT ![p] = "done"]
    /\ UNCHANGED <<mutex, listeners, messages, connVars, pname, plist, pidx, plog,
                   pseq, ppred, statusVars>>

\* ---------------------------------------------------------- GET /channels/
\* the names of the Topics of a list
TopicNames(list) == {list[i].Name : i \in 1..Len(list)}

\* ServeHTTP takes the /channels/ case: the range over server.listeners
\* begins, with no lock taken
ChannelsStart ==
    /\ Running
    /\ spc = "idle"
    /\ Received < MaxRequests
    /\ \E path \in Paths : Route(path) = "channels"
    /\ spc' = "range"
    /\ scount' = scount + 1
    /\ skeys' = DOMAIN listeners
    /\ slist' = <<>>
    /\ sbefore' = {pname[p] : p \in {q \in Pubs : ppc[q] = "done"}}
    /\ schanged' = FALSE
    /\ UNCHANGED <<mutex, listeners, messages, connVars, pubVars, sresp, nfcount>>

\* a bug: the range runs over every name a request can carry
ChannelsNextAllNames ==
    /\ Running
    /\ spc = "range"
    /\ \E name \in Names \ TopicNames(slist) :
          slist' = Append(slist, [Name |-> name,
                                  Listeners |-> Len(Subscribers(name)),
                                  Messages |-> Count(name)])
    /\ UNCHANGED <<mutex, listeners, messages, connVars, pubVars,
                   spc, scount, skeys, sresp, sbefore, schanged, nfcount>>

\* a bug: the Topic of a name is given the number of Topics listed so far
ChannelsNextIndex ==
    /\ Running
    /\ spc = "range"
    /\ \E name \in DOMAIN listeners \ TopicNames(slist) :
          slist' = Append(slist, [Name |-> name,
                                  Listeners |-> Len(slist),
                                  Messages |-> Count(name)])
    /\ UNCHANGED <<mutex, listeners, messages, connVars, pubVars,
                   spc, scount, skeys, sresp, sbefore, schanged, nfcount>>

\* one turn of the range: a Topic of the name, of the length of its list and
\* of its message count as they are now
ChannelsNext ==
    /\ Running
    /\ spc = "range"
    /\ \E name \in DOMAIN listeners \ TopicNames(slist) :
          slist' = Append(slist, [Name |-> name,
                                  Listeners |-> Len(listeners[name]),
                                  Messages |-> Count(name)])
    /\ UNCHANGED <<mutex, listeners, messages, connVars, pubVars,
                   spc, scount, skeys, sresp, sbefore, schanged, nfcount>>

\* the range is over (a key added while it ran may have been missed): the
\* list is marshalled and written
ChannelsRespond ==
    /\ Running
    /\ spc = "range"
    /\ skeys \subseteq TopicNames(slist)
    /\ sresp' = slist
    /\ spc' = "idle"
    /\ slist' = <<>>
    /\ skeys' = {}
    /\ schanged' = FALSE
    /\ UNCHANGED <<mutex, listeners, messages, connVars, pubVars, scount, sbefore,
                   nfcount>>

\* the maps are read with no lock while a goroutine stands in its critical
\* section, about to write one of them: a data race.  The reads may go
\* through (ChannelsNext, ChannelsRespond), or the runtime detects the
\* concurrent map access and ends the process with a fatal error.  A handler
\* in listen or hangup writes server.listeners, which the range reads at
\* every turn and at its end; a broadcast writes server.messages, which a
\* turn of the range reads.
ChannelsFatal ==
    /\ Running
    /\ spc = "range"
    /\ mutex # Free
    /\ mutex[1] = "pub" => DOMAIN listeners # TopicNames(slist)
    /\ spc' = "fatal"
    /\ UNCHANGED <<mutex, listeners, messages, connVars, pubVars,
                   scount, skeys, slist, sresp, sbefore, schanged, nfcount>>

\* ----------------------------------------------------------------- default
\* ServeHTTP takes the default case: http.NotFound answers 404
NotFound ==
    /\ Running
    /\ Received < MaxRequests
    /\ \E path \in Paths : Route(path) = "notfound"
    /\ nfcount' = nfcount + 1
    /\ UNCHANGED <<mutex, listeners, messages, connVars, pubVars,
                   spc, scount, skeys, slist, sresp, sbefore, schanged>>

\* ----------------------------------------------------------- specification
Next ==
    \/ \E c \in Conns : WSConnect(c)
    \/ \E c \in Conns : ListenLock(c)
    \/ \E c \in Conns : ListenAppend(c)
    \/ \E c \in Conns : WSSpawn(c)
    \/ \E c \in Conns : WSWrite(c)
    \/ \E c \in Conns : WSDead(c)
    \/ \E c \in Conns : ReadLoopError(c)
    \/ \E c \in Conns : SSEConnect(c)
    \/ \E c \in Conns : SSEConnected(c)
    \/ \E c \in Conns : SSEDisconnected(c)
    \/ \E c \in Conns : SSETick(c)
    \/ \E c \in Conns : SSEPing(c)
    \/ \E c \in Conns : SSEWrite(c)
    \/ \E c \in Conns : HangupLock(c)
    \/ \E c \in Conns : HangupRemove(c)
    \/ \E c \in Conns : DrainExpire(c)
    \/ \E c \in Conns : PeerGone(c)
    \/ \E p \in Pubs : BroadcastStart(p)
    \/ \E p \in Pubs : BroadcastLock(p)
    \/ \E p \in Pubs : BroadcastIncr(p)
    \/ \E p \in Pubs : BroadcastDeliver(p)
    \/ \E p \in Pubs : BroadcastRespond(p)
    \/ ChannelsStart
    \/ ChannelsNext
    \/ ChannelsRespond
    \/ ChannelsFatal
    \/ NotFound

Spec == Init /\ [][Next]_vars

\* ------------------------------------------------- hangup on any registry
\* a queue that belongs to none of the connections
OtherQueue == MaxConns + 1

\* the lists hangup can be given: no queue twice
QueueLists ==
    {list \in UNION {[1..n -> Conns \cup {OtherQueue}] : n \in 0..(MaxConns + 1)} :
        \A i, j \in DOMAIN list : list[i] = list[j] => i = j}

\* the channel maps hangup can be given: no queue in two lists
Registries ==
    {reg \in UNION {[D -> QueueLists] : D \in (SUBSET Names) \ {{}}} :
        \A n, m \in DOMAIN reg :
            n # m => \A i \in DOMAIN reg[n], j \in DOMAIN reg[m] : reg[n][i] # reg[m][j]}

\* every handler stands at its return, about to run hangup(name, channel)
\* with a name that listen has been called with, on any registry: its queue
\* may be anywhere in the list of the name, or not in it (as after a hangup
\* of the same queue)
HangupInit ==
    /\ mutex = Free
    /\ listeners \in Registries
    /\ messages \in {<<>>} \cup {[n \in {NameA} |-> 1]}
    /\ kind = [c \in Conns |-> "ws"]
    /\ cname \in [Conns -> DOMAIN listeners]
    /\ cpc = [c \in Conns |-> "return"]
    /\ cmsg = [c \in Conns |-> 0]
    /\ peer = [c \in Conns |-> "gone"]
    /\ rl = [c \in Conns |-> "done"]
    /\ drain = [c \in Conns |-> "none"]
    /\ pulled = [c \in Conns |-> <<>>]
    /\ out = [c \in Conns |-> <<>>]
    /\ drained = [c \in Conns |-> {}]
    /\ ppc = [p \in Pubs |-> "idle"]
    /\ pname = [p \in Pubs |-> <<>>]
    /\ plist = [p \in Pubs |-> <<>>]
    /\ pidx = [p \in Pubs |-> 1]
    /\ plog = [p \in Pubs |-> <<>>]
    /\ pseq = [p \in Pubs |-> 0]
    /\ ppred = [p \in Pubs |-> {}]
    /\ spc = "idle"
    /\ scount = 0
    /\ skeys = {}
    /\ slist = <<>>
    /\ sresp = <<>>
    /\ sbefore = {}
    /\ schanged = FALSE
    /\ nfcount = 0

HangupNext ==
    \/ \E c \in Conns : HangupLock(c)
    \/ \E c \in Conns : HangupRemove(c)

HangupSpec == HangupInit /\ [][HangupNext]_vars

\* the steps of the goroutine that serves broadcast request p
PublisherStep(p) ==
    BroadcastLock(p) \/ BroadcastIncr(p) \/ BroadcastDeliver(p) \/ BroadcastRespond(p)

\* the steps of the handler goroutine of connection c that wait for no
\* client, timer or publisher
HandlerStep(c) ==
    \/ ListenLock(c) \/ ListenAppend(c)
    \/ WSSpawn(c) \/ WSWrite(c) \/ WSDead(c)
    \/ SSEConnected(c) \/ SSEPing(c) \/ SSEWrite(c)
    \/ HangupLock(c) \/ HangupRemove(c)

\* The Go scheduler runs every goroutine that can run; a failed read is
\* reported to readLoop; the timer of a drain goroutine fires; a select
\* whose context is done takes that case after finitely many ticks.
Fairness ==
    /\ \A p \in Pubs : WF_vars(PublisherStep(p))
    /\ \A c \in Conns :
          /\ WF_vars(HandlerStep(c))
          /\ WF_vars(ReadLoopError(c))
          /\ WF_vars(DrainExpire(c))
          /\ SF_vars(SSEDisconnected(c))

FairSpec == Spec /\ Fairness

\* ------------------------------------------------------------------ claims
\* how often m occurs in seq, whether it does, and where first
Times(seq, m) == Cardinality({i \in DOMAIN seq : seq[i] = m})
Has(seq, m) == \E i \in DOMAIN seq : seq[i] = m
Index(seq, m) == CHOOSE i \in DOMAIN seq : seq[i] = m /\ \A j \in 1..(i - 1) : seq[j] # m

\* queue c is in the list of its name
Registered(c) == Has(Subscribers(cname[c]), c)

\* the turns of p's loop that have been run
Attempted(p) == 1..(pidx[p] - 1)

\* a turn of p's loop is being run
Turn(p) == ppc[p] = "deliver" /\ pidx'[p] = pidx[p] + 1

\* C1 (part): a listener standing in its receive when the loop reaches its
\* queue is handed the message
C1_ReadyHanded ==
    \A p \in Pubs :
        Turn(p) =>
            LET q == plist[p][pidx[p]]
            IN cpc[q] = "parked" =>
                  /\ pulled'[q] = Append(pulled[q], p)
                  /\ cmsg'[q] = p
                  /\ plog'[p] = Append(plog[p], "PUSH")

\* C1 (part): no listener receives a message twice, and only a listener of
\* the copied list whose turn has come receives it (nobody when k = 0)
C1_AtMostOnce ==
    \A p \in Pubs, c \in Conns :
        /\ Times(pulled[c], p) <= 1
        /\ Has(pulled[c], p) => \E i \in Attempted(p) : plist[p][i] = c

\* C1: broadcast(c, m) hands m exactly once to each of the k >= 0 listeners
\* of c that stands in a receive on its queue when the handoff is attempted
C1_ExactlyOnce == [](C1_AtMostOnce) /\ [][C1_ReadyHanded]_vars

\* a finished broadcast with k = 2 listeners, both of which received it
C1_Witness ==
    \E p \in Pubs :
        /\ ppc[p] = "done"
        /\ Len(plist[p]) = 2
        /\ \A i \in 1..2 : Has(pulled[plist[p][i]], p)

\* the broadcasts on a name that have left their critical section
Counted(name) == {p \in Pubs : pname[p] = name /\ ppc[p] \in {"deliver", "done"}}

\* C3 (part): the counter of a name never decreases
C3_Monotone == \A n \in Names : Count(n)' >= Count(n)

\* C3: the message counter of a channel never decreases and equals the number
\* of broadcast calls on it that have completed their critical section,
\* whatever its subscribers and whether or not a handoff succeeded
C3_Counter ==
    /\ [](\A n \in Names : Count(n) = Cardinality(Counted(n)))
    /\ [][C3_Monotone]_vars

\* a name counting two broadcasts, one to nobody and one that was dropped
C3_Witness ==
    \E n \in Names, p1, p2 \in Pubs :
        /\ Count(n) = 2
        /\ pname[p1] = n /\ ppc[p1] = "done" /\ plist[p1] = <<>>
        /\ pname[p2] = n /\ ppc[p2] = "done" /\ Has(plog[p2], "ERROR")

\* the subscriptions on a name that listen has appended and hangup has not
\* yet removed
Open(name) ==
    {c \in Conns : /\ cname[c] = name
                   /\ cpc[c] \in {"registered", "parked", "write", "ping",
                                  "return", "remove"}}

\* C7: every listen call appends one new queue to the list of its name, so
\* the subscriber count of a name is the number of subscriptions on it that
\* have listened and not yet hung up (k once the k-th one is established)
C7_SubscriberCount ==
    \A n \in Names :
        /\ Len(Subscribers(n)) = Cardinality(Open(n))
        /\ {Subscribers(n)[i] : i \in DOMAIN Subscribers(n)} = Open(n)
        /\ Open(n) # {} => n \in DOMAIN listeners

\* two subscriptions, one WebSocket and one SSE, established on one name
C7_Witness ==
    \E n \in Names, c, d \in Conns :
        /\ Len(Subscribers(n)) = 2
        /\ kind[c] = "ws" /\ kind[d] = "sse"
        /\ Open(n) = {c, d}
        /\ cpc[c] = "parked" /\ cpc[d] = "parked"

\* C4 (part): a broadcast in its loop can always take its next step, as long
\* as the process runs
C4_NoBlock ==
    \A p \in Pubs :
        (Running /\ ppc[p] = "deliver") =>
            ENABLED (BroadcastDeliver(p) \/ BroadcastRespond(p))

\* C4 (part): a handoff that succeeded was taken by the relay loop or by the
\* drain goroutine, and what the drain goroutine took reached no transport
C4_LateDiscarded ==
    \A p \in Pubs :
        \A i \in Attempted(p) :
            LET q == plist[p][i]
            IN /\ plog[p][i] = "PUSH" => (Has(pulled[q], p) \/ p \in drained[q])
               /\ p \in drained[q] =>
                     ~Has(pulled[q], p) /\ ~Has(out[q], p) /\ cmsg[q] # p

\* C4 (part): nothing is received from, or written to the transport of, a
\* queue that is not in the registry
C4_NotAfterRemoval ==
    \A c \in Conns :
        ~Registered(c) =>
            out'[c] = out[c] /\ pulled'[c] = pulled[c] /\ cmsg'[c] = cmsg[c]

\* C4: hangup(c, q) concurrent with a broadcast whose snapshot holds q: the
\* broadcast never blocks, and none of its messages reaches the subscriber's
\* transport once q is removed (a late handoff is taken by the drain task
\* and discarded)
C4_HangupDuringBroadcast ==
    /\ [](C4_NoBlock /\ C4_LateDiscarded)
    /\ [][C4_NotAfterRemoval]_vars

\* a broadcast copied q, q hung up, and the drain goroutine took the message
C4_Witness ==
    \E p \in Pubs :
        \E i \in Attempted(p) :
            /\ p \in drained[plist[p][i]]
            /\ ~Registered(plist[p][i])

\* C5 (part): a turn of the loop that finds nobody in a receive changes
\* nothing for the subscriber and logs the drop
C5_Dropped ==
    \A p \in Pubs :
        Turn(p) =>
            LET q == plist[p][pidx[p]]
            IN Receiver(q) = "nobody" =>
                  /\ pulled'[q] = pulled[q] /\ cmsg'[q] = cmsg[q]
                  /\ cpc'[q] = cpc[q] /\ out'[q] = out[q]
                  /\ drained'[q] = drained[q]
                  /\ plog'[p] = Append(plog[p], "ERROR")

\* C5 (part): a dropped message is never received, held, written or drained
\* for that subscriber, and every entry is attempted once
C5_NeverLater ==
    \A p \in Pubs :
        /\ Len(plog[p]) = pidx[p] - 1
        /\ ppc[p] = "done" => Len(plog[p]) = Len(plist[p])
        /\ \A i \in DOMAIN plog[p] :
              plog[p][i] = "ERROR" =>
                  LET q == plist[p][i]
                  IN /\ ~Has(pulled[q], p) /\ ~Has(out[q], p)
                     /\ cmsg[q] # p /\ p \notin drained[q]

\* C5: a subscriber of the snapshot that is not ready when the handoff is
\* attempted does not get the message, neither then nor later (no queue, no
\* retry), and the broadcast goes on to its answer
C5_DropWhenNotReady == [](C5_NeverLater) /\ [][C5_Dropped]_vars

\* a broadcast answered after a drop, its subscriber back in its receive
C5_Witness ==
    \E p \in Pubs :
        \E i \in DOMAIN plog[p] :
            /\ ppc[p] = "done"
            /\ plog[p][i] = "ERROR"
            /\ cpc[plist[p][i]] = "parked"

\* C6 as claimed: a subscriber that receives the messages of two broadcasts
\* on its channel receives them in the order in which the broadcasts left
\* their critical section, also when they run concurrently
C6_CriticalSectionOrder ==
    \A c \in Conns, p1, p2 \in Pubs :
        /\ pname[p1] = pname[p2]
        /\ 0 < pseq[p1] /\ pseq[p1] < pseq[p2]
        /\ Has(pulled[c], p1) /\ Has(pulled[c], p2)
        => Index(pulled[c], p1) < Index(pulled[c], p2)

\* C6 as amended: the order holds for two broadcasts of which the first was
\* answered before the second left its critical section
C6_SequentialOrder ==
    \A c \in Conns, p1, p2 \in Pubs :
        /\ p1 \in ppred[p2]
        /\ Has(pulled[c], p1) /\ Has(pulled[c], p2)
        => Index(pulled[c], p1) < Index(pulled[c], p2)

\* a subscriber received the messages of two broadcasts, one after the other
C6_Witness ==
    \E c \in Conns, p1, p2 \in Pubs :
        /\ p1 \in ppred[p2]
        /\ pname[p1] = pname[p2]
        /\ Has(pulled[c], p1) /\ Has(pulled[c], p2)

\* C10 as claimed: a GET /channels/ that follows an answered broadcast on a
\* name lists that name, also when nobody ever subscribed to it
C10_PublishedChannelListed ==
    (scount > 0 /\ spc = "idle") =>
        \A n \in sbefore :
            \E i \in DOMAIN sresp : sresp[i].Name = n /\ sresp[i].Messages >= 1

\* C2 (part): a broadcast that has ended made one attempt for each entry of
\* its snapshot
C2_OneAttemptEach ==
    \A p \in Pubs :
        /\ Len(plog[p]) = pidx[p] - 1
        /\ pidx[p] <= Len(plist[p]) + 1
        /\ ppc[p] = "done" => Len(plog[p]) = Len(plist[p])

\* C2: every broadcast call terminates, after one handoff attempt for each
\* entry of its snapshot, whatever the state of the subscribers (a call also
\* ends when the whole process ends)
C2_BroadcastTerminates ==
    /\ [](C2_OneAttemptEach)
    /\ \A p \in Pubs : (ppc[p] # "idle") ~> (ppc[p] = "done" \/ ~Running)

\* a broadcast answered although a subscriber of its snapshot had hung up
\* and its drain goroutine had expired
C2_Witness ==
    \E p \in Pubs :
        \E i \in DOMAIN plog[p] :
            /\ ppc[p] = "done"
            /\ plog[p][i] = "ERROR"
            /\ drain[plist[p][i]] = "expired"

\* C8 (part): the removal of hangup takes exactly the queue of its
\* subscription out of the list of its name
C8_OneLess ==
    \A c \in Conns :
        (cpc[c] = "remove" /\ cpc'[c] = "done") =>
            /\ Len(Subscribers(cname[c]))' = Len(Subscribers(cname[c])) - 1
            /\ Registered(c) /\ ~Registered(c)'

\* C8: once the client of a subscription is gone, the handler returns and
\* hangup removes its queue, so the subscriber count of its channel goes
\* down by exactly one, also when the relay loop was handling a message
C8_DisconnectDeregisters ==
    /\ [][C8_OneLess]_vars
    /\ \A c \in Conns :
          (peer[c] = "gone" /\ Registered(c)) ~> (~Registered(c) \/ ~Running)

\* a WebSocket subscription whose client went away while the relay loop was
\* writing a message: the write failed and the queue is out of the registry
C8_Witness ==
    \E c \in Conns :
        /\ kind[c] = "ws"
        /\ peer[c] = "gone"
        /\ cpc[c] = "done"
        /\ ~Registered(c)
        /\ Len(pulled[c]) > Len(out[c])

\* C9 as claimed (the part a finite run decides): the send of readLoop on
\* dead always finds a receiver, so no readLoop stands at that send once the
\* relay loop it signals has returned
C9_ReadLoopFindsReceiver ==
    \A c \in Conns :
        rl[c] = "sending" => cpc[c] \notin {"return", "remove", "done"}

\* C9 as claimed: after a WebSocket subscription has ended, by whatever
\* path, its readLoop and its drain goroutine end too
C9_NoGoroutineLeak ==
    \A c \in Conns :
        (cpc[c] = "done") ~> (rl[c] \in {"none", "done"} /\ drain[c] \in {"none", "expired"})

\* the Topics of a list are those of the channel map as it is now: one for
\* each key, of the length of its list and of its message count
Faithful(list) ==
    /\ Len(list) = Cardinality(DOMAIN listeners)
    /\ TopicNames(list) = DOMAIN listeners
    /\ \A i \in DOMAIN list :
          /\ list[i].Listeners = Len(Subscribers(list[i].Name))
          /\ list[i].Messages = Count(list[i].Name)

\* C11 (part): the answer of a GET /channels/ during which nobody wrote the
\* registry holds exactly the Topics of the channel map
C11_AnswerFaithful ==
    (spc = "range" /\ spc' = "idle" /\ ~schanged) => Faithful(sresp')

\* C11 (part): no step of a GET /channels/ changes the registry
C11_ReadOnly ==
    (spc' # spc \/ slist' # slist \/ sresp' # sresp \/ scount' # scount) =>
        UNCHANGED <<listeners, messages, mutex>>

\* C11: in any registry state GET /channels/ returns exactly one record for
\* each channel of the channel map, its Listeners the current length of the
\* channel's list and its Messages the channel's counter, and the request
\* changes nothing in the registry
C11_ListChannels == [][C11_AnswerFaithful /\ C11_ReadOnly]_vars

\* an answer that holds a channel with one subscriber and one message, while
\* the registry is as the answer says
C11_Witness ==
    /\ spc = "idle"
    /\ scount > 0
    /\ Faithful(sresp)
    /\ \E i \in DOMAIN sresp : sresp[i].Listeners = 1 /\ sresp[i].Messages = 1

\* the names that a listen (one that reached server.listen) or a broadcast
\* has been called with
Targeted ==
    {cname[c] : c \in {d \in Conns : cpc[d] # "idle" /\ cname[d] # <<>>}}
        \cup {pname[p] : p \in {q \in Pubs : ppc[q] # "idle"}}

\* C12: after any sequence of listen, hangup, broadcast and introspection
\* requests, the introspection result (and the list it is built from) holds
\* no record of a channel name that was never the target of a listen or of a
\* broadcast
C12_NoPhantomChannel ==
    /\ TopicNames(sresp) \subseteq Targeted
    /\ TopicNames(slist) \subseteq Targeted

\* an answer with a record in it, given while a name was never used
C12_Witness ==
    /\ spc = "idle"
    /\ scount > 0
    /\ sresp # <<>>
    /\ Names \ Targeted # {}

\* hangup has removed the queue of connection c
Removed(c) == cpc[c] = "done" /\ drain[c] # "none"

\* C13 (part): a broadcast that has ended with an empty snapshot made no
\* attempt, handed its message to nobody and counted it
C13_DeliversToNobody ==
    \A p \in Pubs :
        (ppc[p] = "done" /\ plist[p] = <<>>) =>
            /\ plog[p] = <<>>
            /\ pseq[p] >= 1 /\ Count(pname[p]) >= pseq[p]
            /\ \A c \in Conns : ~Has(pulled[c], p) /\ p \notin drained[c] /\ cmsg[c] # p

\* C13: a broadcast whose critical section starts after hangup has removed
\* queue q never has q in its snapshot and never hands its message to q, to
\* the relay loop or to the drain goroutine; after subscribe-then-disconnect
\* a later broadcast counts its message and delivers to nobody
C13_NoAttemptAfterHangup ==
    /\ [](C13_DeliversToNobody)
    /\ \A p \in Pubs, c \in Conns :
          []((Removed(c) /\ ppc[p] \in {"idle", "lock"}) =>
                [](/\ ~Has(plist[p], c)
                   /\ ~Has(pulled[c], p)
                   /\ p \notin drained[c]))

\* a subscriber received a first broadcast and hung up; a second broadcast on
\* its channel, begun after the first was answered, found the list empty and
\* was answered
C13_Witness ==
    \E c \in Conns, p1, p2 \in Pubs :
        /\ Has(pulled[c], p1)
        /\ Removed(c)
        /\ p1 \in ppred[p2]
        /\ pname[p2] = cname[c]
        /\ ppc[p2] = "done"
        /\ plist[p2] = <<>>
        /\ Count(cname[c]) = 2

\* C14 (part): the default case is taken by exactly the paths that are not
\* /channels/ and begin with neither /broadcast/ nor /listen/
C14_DefaultCase ==
    \A path \in Paths :
        (Route(path) = "notfound") <=>
            /\ path # channels
            /\ ~(Len(path) >= Len(broadcast) /\ \A i \in 1..Len(broadcast) : path[i] = broadcast[i])
            /\ ~(Len(path) >= Len(listen) /\ \A i \in 1..Len(listen) : path[i] = listen[i])

\* C14 (part): the step that answers 404 changes nothing but the count of
\* such answers: no list, no counter, no lock, no connection, no broadcast
C14_NothingChanged ==
    (nfcount' # nfcount) =>
        /\ nfcount' = nfcount + 1
        /\ UNCHANGED <<mutex, listeners, messages, connVars, pubVars>>
        /\ UNCHANGED <<spc, scount, skeys, slist, sresp>>

\* C14: a request whose path is not exactly /channels/ and starts with
\* neither /broadcast/ nor /listen/ is answered 404 Not Found and leaves the
\* subscriber lists and the message counters of every channel unchanged
C14_NotFound == [](C14_DefaultCase) /\ [][C14_NothingChanged]_vars

\* a 404 was answered while the registry held a subscriber and a counted
\* message, which are still there
C14_Witness ==
    /\ nfcount > 0
    /\ \E n \in Names : Len(Subscribers(n)) = 1 /\ Count(n) = 1

\* C15 as claimed: every access of the registry is made under the mutex, so
\* no two of them overlap: the writers stand in their critical section as
\* the holder of the mutex, and while the range of a GET /channels/ runs no
\* other goroutine is in a critical section and the runtime finds no
\* concurrent map access
C15_AllAccessesLocked ==
    /\ \A c \in Conns : cpc[c] \in {"append", "remove"} => mutex = Handler(c)
    /\ \A p \in Pubs : ppc[p] = "incr" => mutex = Publisher(p)
    /\ spc = "range" => mutex = Free
    /\ Running

\* C16 (part): a broadcast holds the mutex only between its snapshot and its
\* increment, never in its loop nor after it
C16_ReleasedBeforeLoop ==
    \A p \in Pubs :
        /\ mutex = Publisher(p) => ppc[p] = "incr"
        /\ ppc[p] \in {"deliver", "done"} => (mutex # Publisher(p) /\ pseq[p] >= 1)

\* C16 (part): no handoff is attempted by the holder of the mutex
C16_HandoffUnlocked ==
    \A p \in Pubs : Turn(p) => (mutex # Publisher(p) /\ mutex' # Publisher(p))

\* C16: broadcast never attempts a handoff while it holds the registry
\* mutex: the mutex is released after the snapshot and the increment and
\* before the first attempt, so that another goroutine can be in its
\* critical section while the broadcast is delivering
C16_DeliverOutsideLock == [](C16_ReleasedBeforeLoop) /\ [][C16_HandoffUnlocked]_vars

\* a broadcast with an attempt still to make, while another goroutine (a
\* listen, a hangup or a broadcast) is in its critical section
C16_Witness ==
    \E p \in Pubs :
        /\ ppc[p] = "deliver"
        /\ pidx[p] <= Len(plist[p])
        /\ mutex # Free

\* C17 (part): between the snapshot and the increment the broadcast holds
\* the mutex and the list of its channel is still the one it copied
C17_NothingBetween ==
    \A p \in Pubs :
        ppc[p] = "incr" => (mutex = Publisher(p) /\ plist[p] = Subscribers(pname[p]))

\* C17 (part): the snapshot is the list of the channel at the moment it is
\* taken, the increment leaves the lists alone and counts one, and a
\* snapshot once taken is never altered
C17_SnapshotExact ==
    \A p \in Pubs :
        /\ (ppc[p] = "lock" /\ ppc'[p] = "incr") =>
               (plist'[p] = Subscribers(pname[p]) /\ UNCHANGED <<listeners, messages>>)
        /\ (ppc[p] = "incr" /\ ppc'[p] = "deliver") =>
               /\ Count(pname[p])' = Count(pname[p]) + 1
               /\ UNCHANGED listeners
               /\ plist[p] = Subscribers(pname[p])
        /\ ppc[p] \in {"incr", "deliver", "done"} => plist'[p] = plist[p]

\* C17 (part): the message of a broadcast is handed only through queues of
\* its snapshot
C17_OnlySnapshot ==
    \A p \in Pubs, c \in Conns :
        (Has(pulled[c], p) \/ p \in drained[c] \/ cmsg[c] = p) => Has(plist[p], c)

\* C17: the snapshot and the increment of a broadcast are one atomic
\* critical section: no listen or hangup takes effect between them, the
\* snapshot is exactly the list of the channel at that moment (a queue
\* registered later, or removed earlier, is not attempted), and later
\* listen and hangup calls do not alter a snapshot already taken
C17_AtomicSnapshot ==
    /\ [](C17_NothingBetween /\ C17_OnlySnapshot)
    /\ [][C17_SnapshotExact]_vars

\* a broadcast out of its critical section whose snapshot holds a queue,
\* while the list of its channel has changed since
C17_Witness ==
    \E p \in Pubs :
        /\ ppc[p] \in {"deliver", "done"}
        /\ plist[p] # <<>>
        /\ plist[p] # Subscribers(pname[p])

\* C18 (part): the loop waits for no subscriber and leaves none out: a turn
\* can always be taken, and an answered broadcast has made an attempt for
\* every entry of its snapshot, whatever the outcome of the others
C18_NoStall ==
    \A p \in Pubs :
        /\ (Running /\ ppc[p] = "deliver" /\ pidx[p] <= Len(plist[p])) =>
               ENABLED BroadcastDeliver(p)
        /\ Len(plog[p]) = pidx[p] - 1
        /\ ppc[p] = "done" => DOMAIN plog[p] = DOMAIN plist[p]

\* C18 (part): a subscriber that stands in its receive when its turn comes
\* receives the message, whatever happened to the entries before it
C18_ReadyStillReceives ==
    \A p \in Pubs :
        Turn(p) =>
            LET q == plist[p][pidx[p]]
            IN cpc[q] = "parked" =>
                  /\ Has(pulled'[q], p)
                  /\ plog'[p][pidx[p]] = "PUSH"
                  /\ \A i \in Attempted(p) : plog'[p][i] = plog[p][i]

\* C18: one slow or dead subscriber cannot stall delivery to the others: in
\* a broadcast whose snapshot holds a subscriber that is not ready and
\* others that are, every ready subscriber still receives the message,
\* whatever the position of the unready one in the list
C18_SlowSubscriberAlone == [](C18_NoStall) /\ [][C18_ReadyStillReceives]_vars

\* an answered broadcast whose first subscriber was not ready and whose
\* second subscriber received the message
C18_Witness ==
    \E p \in Pubs :
        /\ ppc[p] = "done"
        /\ plog[p] = <<"ERROR", "PUSH">>
        /\ Has(pulled[plist[p][2]], p)
        /\ ~Has(pulled[plist[p][1]], p)

\* the positions of a handler between listen's return and its own return
Subscribed == {"registered", "parked", "write", "ping"}

\* how often hangup has been called for connection c: the call is running,
\* or it has started its drain goroutine
Hangups(c) == IF cpc[c] = "remove" \/ drain[c] # "none" THEN 1 ELSE 0

\* C19 (part): a handler that has ended after listen registered its queue
\* has called hangup, one that has not ended has not, and one that never
\* registered never does
C19_NeverZero ==
    \A c \in Conns :
        /\ (cpc[c] = "done" /\ cname[c] # <<>>) => (Hangups(c) = 1 /\ ~Registered(c))
        /\ cpc[c] \in Subscribed \cup {"return"} => (Hangups(c) = 0 /\ Registered(c))
        /\ cname[c] = <<>> => Hangups(c) = 0

\* C19 (part): the relay loop is left only by the return that runs hangup,
\* hangup starts only from that return, its drain goroutine is started only
\* by it and only once, and an ended handler stays ended
C19_NeverTwice ==
    \A c \in Conns :
        /\ (cpc[c] \in Subscribed /\ cpc'[c] \notin Subscribed) => cpc'[c] = "return"
        /\ (cpc[c] # "remove" /\ cpc'[c] = "remove") => (cpc[c] = "return" /\ drain[c] = "none")
        /\ (drain[c] = "none" /\ drain'[c] # "none") =>
               (cpc[c] = "remove" /\ cpc'[c] = "done" /\ drain'[c] = "draining")
        /\ drain[c] # "none" => drain'[c] # "none"
        /\ cpc[c] = "done" => cpc'[c] = "done"
        /\ Hangups(c)' >= Hangups(c)

\* C19: hangup is invoked exactly once per subscription: on every path by
\* which a WebSocket or SSE handler ends after listen has registered its
\* queue (peer close, write error, context cancellation) hangup is called
\* once for that queue, never zero times and never twice
C19_HangupOnce == [](C19_NeverZero) /\ [][C19_NeverTwice]_vars

\* a WebSocket subscription ended by a write error and an SSE subscription
\* ended by its context, each with its hangup run
C19_Witness ==
    \E c, d \in Conns :
        /\ kind[c] = "ws" /\ cpc[c] = "done" /\ Hangups(c) = 1
        /\ rl[c] # "done" /\ Len(pulled[c]) > Len(out[c])
        /\ kind[d] = "sse" /\ cpc[d] = "done" /\ Hangups(d) = 1

\* a write of the relay loop of connection c has failed: a message was
\* received from the queue, is no longer held and was not written
WriteFailed(c) ==
    Len(pulled[c]) > Len(out[c]) + (IF cmsg[c] # 0 THEN 1 ELSE 0)

\* C20 (part): after a failed write the WebSocket relay loop has returned,
\* and the SSE relay loop finds the case of its context ready at its select
C20_LoopStops ==
    \A c \in Conns :
        WriteFailed(c) =>
            /\ peer[c] = "gone"
            /\ kind[c] = "ws" => cpc[c] \in {"return", "remove", "done"}
            /\ (kind[c] = "sse" /\ cpc[c] = "parked" /\ Running) =>
                   ENABLED SSEDisconnected(c)

\* C20 (part): the step that writes, failing or not, tells the publisher
\* nothing: the state of every broadcast and the counters stay as they are
C20_NotSurfaced ==
    \A c \in Conns :
        (cpc[c] = "write" /\ cpc'[c] # "write") =>
            UNCHANGED <<pubVars, messages>>

\* C20: a write failure to a connected subscriber (peer gone) leads to the
\* hangup of that subscriber: the relay loop stops and the queue is
\* deregistered, and the publisher is told nothing; for the WebSocket relay
\* loop and for the SSE relay loop
C20_WriteFailureHangsUp ==
    /\ [](C20_LoopStops)
    /\ [][C20_NotSurfaced]_vars
    /\ \A c \in Conns : WriteFailed(c) ~> (Removed(c) \/ ~Running)

\* one broadcast was received by a WebSocket and by an SSE subscriber, both
\* writes failed, both queues are out of the registry and the broadcast was
\* answered with both handoffs logged as made
C20_Witness ==
    \E c, d \in Conns, p \in Pubs :
        /\ kind[c] = "ws" /\ WriteFailed(c) /\ Removed(c)
        /\ kind[d] = "sse" /\ WriteFailed(d) /\ Removed(d)
        /\ ppc[p] = "done" /\ plog[p] = <<"PUSH", "PUSH">>

\* C21 (part): the drain goroutine exists only for a queue that hangup has
\* removed, and what it received was written to no transport and was given
\* to no relay loop
C21_Discards ==
    \A c \in Conns :
        /\ drain[c] # "none" => (cpc[c] = "done" /\ ~Registered(c))
        /\ \A p \in drained[c] :
              /\ ~Has(out[c], p) /\ ~Has(pulled[c], p) /\ cmsg[c] # p
              /\ Has(plist[p], c)

\* C21 (part): while it drains, the goroutine takes the message of every
\* handoff attempted on its queue and nothing is written; once its timeout
\* has fired it takes nothing more and never runs again
C21_DrainSteps ==
    \A c \in Conns :
        /\ drain[c] = "draining" =>
               /\ out'[c] = out[c] /\ pulled'[c] = pulled[c]
               /\ \A p \in Pubs :
                     (Turn(p) /\ plist[p][pidx[p]] = c) =>
                         /\ drained'[c] = drained[c] \cup {p}
                         /\ plog'[p] = Append(plog[p], "PUSH")
        /\ drain[c] = "expired" =>
               /\ drain'[c] = "expired"
               /\ drained'[c] = drained[c]
               /\ out'[c] = out[c] /\ pulled'[c] = pulled[c]
               /\ \A p \in Pubs :
                     (Turn(p) /\ plist[p][pidx[p]] = c) =>
                         plog'[p] = Append(plog[p], "ERROR")

\* C21: after hangup(c, q) a drain task receives and discards every message
\* handed to q by in-flight broadcasts during its grace window, then stops
\* for good; it ends after the window also when no message ever comes, and
\* it never forwards a message to the subscriber's transport
C21_DrainTask ==
    /\ [](C21_Discards)
    /\ [][C21_DrainSteps]_vars
    /\ \A c \in Conns : (drain[c] = "draining") ~> (drain[c] = "expired" \/ ~Running)

\* a drain goroutine that took the message of an in-flight broadcast and
\* has ended, and another that ended without a message
C21_Witness ==
    \E c, d \in Conns :
        /\ drain[c] = "expired" /\ drained[c] # {}
        /\ drain[d] = "expired" /\ drained[d] = {}

\* the list without its entry at place i
Without(list, i) == SubSeq(list, 1, i - 1) \o SubSeq(list, i + 1, Len(list))

\* C22 (part): the removal of hangup(n, q): when q is in the list of n, the
\* list loses its first entry identical to q and nothing else; when it is
\* not, the list is as before; the other lists, the keys and the counters
\* are as before, and q is then not in the list, so that a second
\* deregistration finds nothing to remove
C22_RemovesFirstOnly ==
    \A c \in Conns :
        (cpc[c] = "remove" /\ cpc'[c] = "done") =>
            LET n == cname[c]
                list == listeners[n]
            IN /\ Has(list, c) => listeners'[n] = Without(list, Index(list, c))
               /\ ~Has(list, c) => listeners' = listeners
               /\ DOMAIN listeners' = DOMAIN listeners
               /\ \A m \in DOMAIN listeners \ {n} : listeners'[m] = listeners[m]
               /\ messages' = messages
               /\ ~Has(listeners'[n], c)

C23_EntryKept ==
    \A c \in Conns :
        (cpc[c] \in Subscribed \cup {"return", "remove"} \/ Removed(c)) =>
            cname[c] \in DOMAIN listeners

\* C23 (part): no step takes a key out of either map; the removal of hangup
\* leaves the counters as they are, and the list of the last subscriber
\* empty under its key; the answer of a GET /channels/ holds every key the
\* channel map had when its range began
C23_NeverDeleted ==
    /\ DOMAIN listeners \subseteq DOMAIN listeners'
    /\ DOMAIN messages \subseteq DOMAIN messages'
    /\ \A c \in Conns :
          (cpc[c] = "remove" /\ cpc'[c] = "done") =>
              /\ messages' = messages
              /\ cname[c] \in DOMAIN listeners'
              /\ Subscribers(cname[c]) = <<c>> => listeners'[cname[c]] = <<>>
    /\ (spc = "range" /\ spc' = "idle") => skeys \subseteq TopicNames(sresp')

\* C23: a channel entry is never deleted: once a channel has been subscribed
\* to it stays in the registry, and in the introspection result, after its
\* last subscriber hangs up, with subscriber count 0 and with a message
\* count that the hangup has not changed
C23_ChannelPersists == [](C23_EntryKept) /\ [][C23_NeverDeleted]_vars

\* the only subscriber of a channel received a message and hung up, and an
\* answer given since lists the channel with no subscriber and one message
C23_Witness ==
    \E c \in Conns, p \in Pubs :
        /\ Removed(c)
        /\ pulled[c] = <<p>>
        /\ Subscribers(cname[c]) = <<>>
        /\ \E i \in DOMAIN sresp :
              sresp[i] = [Name |-> cname[c], Listeners |-> 0, Messages |-> 1]

\* the places (name, index) of the channel map that hold queue q
Places(q) ==
    {pl \in UNION {{<<n, i>> : i \in DOMAIN listeners[n]} : n \in DOMAIN listeners} :
        listeners[pl[1]][pl[2]] = q}

\* C24: in every reachable registry state each subscriber queue appears in
\* the list of at most one channel and at most once in that list (and only
\* under the name it was registered with, and only queues that listen has
\* made appear), after any interleaving of listen, hangup and broadcast
C24_QueueAtMostOnce ==
    /\ \A q \in Conns :
          /\ Cardinality(Places(q)) <= 1
          /\ \A pl \in Places(q) : pl[1] = cname[q]
    /\ \A n \in DOMAIN listeners :
          \A i \in DOMAIN listeners[n] : listeners[n][i] \in Conns

\* two channels with one queue each, of two different connections, after a
\* broadcast has been answered
C24_Witness ==
    \E c, d \in Conns, p \in Pubs :
        /\ Subscribers(NameA) = <<c>>
        /\ Subscribers(NameAB) = <<d>>
        /\ ppc[p] = "done"

\* the listen request of connection c failed before server.listen
FailedSetup(c) == cpc[c] = "done" /\ cname[c] = <<>>

\* C25 (part): a connection whose setup failed has no queue in any list, no
\* readLoop and no drain goroutine (hangup was not called), and received
\* and wrote nothing
C25_NothingLeft ==
    \A c \in Conns :
        FailedSetup(c) =>
            /\ Places(c) = {}
            /\ Hangups(c) = 0
            /\ rl[c] = "none"
            /\ pulled[c] = <<>> /\ out[c] = <<>> /\ drained[c] = {}
            /\ \A p \in Pubs : ~Has(plist[p], c)

\* C25 (part): the step of a request that fails at its setup changes neither
\* map (no entry is created, no counter changes) nor the mutex, and a
\* connection that failed takes no further step
C25_NoSideEffect ==
    \A c \in Conns :
        /\ (cpc[c] = "idle" /\ cpc'[c] = "done") =>
               UNCHANGED <<mutex, listeners, messages, drain, rl>>
        /\ FailedSetup(c) =>
               /\ FailedSetup(c)'
               /\ drain'[c] = drain[c] /\ rl'[c] = rl[c]

\* C25: a listen request that fails before the subscription is set up (the
\* WebSocket upgrade fails, or the response writer cannot stream for SSE)
\* returns without any channel side effect: no queue is registered, no
\* channel entry is created, no counter changes, and hangup is not called
C25_FailedSetup == [](C25_NothingLeft) /\ [][C25_NoSideEffect]_vars

\* a WebSocket request whose upgrade failed and an SSE request with no
\* flusher, on a server whose channel map is still empty
C25_Witness ==
    \E c, d \in Conns :
        /\ kind[c] = "ws" /\ FailedSetup(c)
        /\ kind[d] = "sse" /\ FailedSetup(d)
        /\ listeners = <<>>
        /\ scount > 0 /\ spc = "idle" /\ sresp = <<>>

\* C26 (part): the snapshot of a broadcast holds only queues registered under
\* exactly its name, and its message is received, held or drained only
\* through such queues
C26_OwnChannelOnly ==
    \A p \in Pubs :
        /\ \A i \in DOMAIN plist[p] : cname[plist[p][i]] = pname[p]
        /\ \A c \in Conns :
              (Has(pulled[c], p) \/ cmsg[c] = p \/ p \in drained[c]) =>
                  cname[c] = pname[p]

\* C26 (part): a step of a broadcast changes no subscriber list and no
\* counter but that of its own name, and gives nothing to a queue
\* registered under another name
C26_OthersUntouched ==
    \A p \in Pubs :
        (ppc'[p] # ppc[p] \/ pidx'[p] # pidx[p]) =>
            /\ listeners' = listeners
            /\ \A n \in (DOMAIN messages \cup DOMAIN messages' \cup Names) \ {pname'[p]} :
                  Count(n)' = Count(n)
            /\ \A c \in Conns :
                  cname[c] # pname'[p] =>
                      /\ pulled'[c] = pulled[c] /\ cmsg'[c] = cmsg[c]
                      /\ drained'[c] = drained[c] /\ cpc'[c] = cpc[c]

\* C26: channels are isolated: broadcast(c, m) attempts a handoff only to
\* queues registered under exactly the name c at snapshot time, never to a
\* queue registered under another name c' (also when c is a prefix of c'),
\* and it changes neither the message counter of another channel nor the
\* subscriber list of any channel
C26_Isolation == [](C26_OwnChannelOnly) /\ [][C26_OthersUntouched]_vars

\* a broadcast on the shorter name was answered after its subscriber took
\* the message, while a subscriber of the longer name stood in its receive
\* and got nothing, its channel counting no message
C26_Witness ==
    \E c, d \in Conns, p \in Pubs :
        /\ pname[p] = NameA /\ ppc[p] = "done"
        /\ cname[c] = NameA /\ pulled[c] = <<p>>
        /\ cname[d] = NameAB /\ cpc[d] = "parked" /\ pulled[d] = <<>>
        /\ Count(NameAB) = 0

\* the entries of a list that are not q, in their order
Others(list, q) == SelectSeq(list, LAMBDA x : x # q)

\* C27 (part): the steps of hangup(n, q): the lock step changes nothing but
\* the mutex; the removal leaves the other queues of n in their order,
\* the lists of the other names, every counter and every snapshot as they
\* were, and no other connection is moved
C27_OnlyQ ==
    \A c \in Conns :
        /\ (cpc[c] = "return" /\ cpc'[c] = "remove") =>
               UNCHANGED <<listeners, messages, plist>>
        /\ (cpc[c] = "remove" /\ cpc'[c] = "done") =>
               /\ Subscribers(cname[c])' = Others(Subscribers(cname[c]), c)
               /\ Len(Subscribers(cname[c])') = Len(Subscribers(cname[c])) - 1
               /\ DOMAIN listeners' = DOMAIN listeners
               /\ \A n \in DOMAIN listeners \ {cname[c]} : listeners'[n] = listeners[n]
               /\ messages' = messages
               /\ plist' = plist
               /\ UNCHANGED <<pidx, plog, pulled, out, drained, cmsg>>
               /\ \A d \in Conns \ {c} : cpc'[d] = cpc[d] /\ drain'[d] = drain[d]

====
